---- MODULE Spec2Model ----
(***************************************************************************)
(* A model of pymstodo's ToDoConnection (src/pymstodo/client.py): the      *)
(* stored OAuth2 token and its refresh, the eleven public API operations,  *)
(* the pagination loop of get_tasks, and the Task / TaskList records with  *)
(* their derived accessors.                                                *)
(***************************************************************************)
EXTENDS Integers, Sequences, FiniteSets, TLC

\* ------------------------------------------------------------------ bounds
NumProcs == 2
MaxPages == 2
MaxLimit == 2
MaxTicks == 2
MaxIssued == 2
MaxFields == 2

\* ------------------------------------------------------- program constants
RefreshMargin == 300
DefaultLimit == 1000

TickStep == RefreshMargin \div 3

Procs == 1..NumProcs

\* ------------------------------------------------------------- operations
SingleOps == {"get_lists", "create_list", "get_list", "update_list", "delete_list",
              "create_task", "get_task", "update_task", "delete_task", "complete_task"}
DeleteOps == {"delete_list", "delete_task"}
Ops == SingleOps \cup {"get_tasks"}

\* complete_task is update_task(task_id, list_id, status='completed')
Callee(o) == IF o = "complete_task" THEN "update_task" ELSE o

\* what a single-request operation returns when it does not raise
ValueOf(o) ==
    CASE Callee(o) \in DeleteOps -> "True"
      [] Callee(o) = "get_lists" -> "TaskLists"
      [] Callee(o) \in {"create_list", "get_list", "update_list"} -> "TaskList"
      [] OTHER -> "Task"

\* ------------------------------------------------------------ HTTP replies
Responses ==
    { [status_code |-> 200, reason |-> "OK", body |-> "json"],
      [status_code |-> 204, reason |-> "No Content", body |-> "empty"],
      [status_code |-> 304, reason |-> "Not Modified", body |-> "empty"],
      [status_code |-> 404, reason |-> "Not Found", body |-> "json"],
      [status_code |-> 500, reason |-> "Internal Server Error", body |-> "json"] }

NoResp == [status_code |-> 0, reason |-> "", body |-> "empty"]

\* requests.Response.ok: False exactly for the 4xx and 5xx status codes
RespOk(r) == ~(r.status_code >= 400 /\ r.status_code < 600)

\* ----------------------------------------------------------------- results
NoResult == [kind |-> "none", exc |-> "", status_code |-> 0, reason |-> "", value |-> ""]

Returned(v) == [kind |-> "returned", exc |-> "", status_code |-> 0, reason |-> "", value |-> v]

PymstodoError(status_code, reason) ==
    [kind |-> "raised", exc |-> "PymstodoError", status_code |-> status_code,
     reason |-> reason, value |-> ""]

\* an exception of a library, passing through the client uncaught
LibraryError(name) ==
    [kind |-> "raised", exc |-> name, status_code |-> 0, reason |-> "", value |-> ""]

\* ------------------------------------------------------------------ tokens
NoToken == [access_token |-> 0 - 1, refresh_token |-> 0 - 1, expires_at |-> 0 - 1]

\* the lifetimes a token is issued with: one that leaves it due for refresh at once,
\* one that keeps it fresh for a tick of the clock
Lifetimes == { RefreshMargin, RefreshMargin + TickStep }

\* ------------------------------------------------------------------- pages
RECURSIVE SumTo(_, _)
SumTo(sizes, k) == IF k = 0 THEN 0 ELSE sizes[k] + SumTo(sizes, k - 1)

\* the chain of pages with the given sizes; the items are numbered in order
ChainOf(sizes) ==
    [k \in 1..Len(sizes) |-> [j \in 1..sizes[k] |-> SumTo(sizes, k - 1) + j]]

\* the page sizes the server answers with: an empty page, a page of one, a page of two
PageSizes == {0, 1, 2}

PageChains ==
    { ChainOf(sizes) : sizes \in UNION { [1..n -> PageSizes] : n \in 1..MaxPages } }

RECURSIVE Concat(_, _)
Concat(chain, k) == IF k = 0 THEN <<>> ELSE Concat(chain, k - 1) \o chain[k]

AllItems(chain) == Concat(chain, Len(chain))

NoUrl == 0

Limits == {0 - 1} \cup (0..MaxLimit)

Min(a, b) == IF a < b THEN a ELSE b
Max(a, b) == IF a > b THEN a ELSE b

\* Python's s[:n]
SliceTo(s, n) ==
    IF n >= 0 THEN SubSeq(s, 1, Min(n, Len(s)))
    ELSE SubSeq(s, 1, Max(Len(s) + n, 0))

VARIABLES
    now,        \* time.time()
    token,      \* self.token
    issued,     \* number of tokens the authorization server has issued
    pc,         \* where each caller is in its operation
    op,         \* the operation each caller runs
    limit,      \* get_tasks: the limit argument
    pages,      \* get_tasks: the chain of pages the server holds for the listing
    endless,    \* get_tasks: the last page links back to the first
    url,        \* get_tasks: the page to request next, NoUrl when None
    contents,   \* get_tasks: the accumulated items
    fetched,    \* the requests of the operation, in order (page numbers for get_tasks)
    sess,       \* the token of the operation's OAuth2Session
    used,       \* the tokens the operation's API requests were sent with
    entry,      \* self.token when the operation began
    checked,    \* [at |-> time read, expiring |-> outcome] of the operation's freshness check
    exchanges,  \* the refresh exchanges of the operation, each the server's answer
    stored,     \* self.token when _refresh_token returned
    resp,       \* the last API response of the operation
    result,     \* what the operation returned or raised
    rec,        \* a Task or TaskList record built from a payload
    got,        \* the last accessor read of rec, and what it gave
    redeemed,   \* for each refresh token, the successful exchanges made with it
    overlapped  \* an operation has begun while another was under way

conn == <<now, token, issued>>
listing == <<limit, pages, endless, url, contents>>
hist == <<fetched, used, entry, checked, exchanges, stored, resp>>
domain == <<rec, got>>
race == <<redeemed, overlapped>>
vars == <<now, token, issued, pc, op, limit, pages, endless, url, contents,
          fetched, sess, used, entry, checked, exchanges, stored, resp, result, rec, got,
          redeemed, overlapped>>

NotChecked == [at |-> 0 - 1, expiring |-> FALSE]

NoRec == [kind |-> "none"]
NoRead == [name |-> "", out |-> [tag |-> "none"]]

Init ==
    /\ now = 0
    /\ token \in { [access_token |-> 0, refresh_token |-> 0, expires_at |-> e] : e \in Lifetimes }
    /\ issued = 0
    /\ pc = [p \in Procs |-> "idle"]
    /\ op = [p \in Procs |-> ""]
    /\ limit = [p \in Procs |-> 0]
    /\ pages = [p \in Procs |-> <<>>]
    /\ endless = [p \in Procs |-> FALSE]
    /\ url = [p \in Procs |-> NoUrl]
    /\ contents = [p \in Procs |-> <<>>]
    /\ fetched = [p \in Procs |-> <<>>]
    /\ sess = [p \in Procs |-> NoToken]
    /\ used = [p \in Procs |-> {}]
    /\ entry = [p \in Procs |-> NoToken]
    /\ checked = [p \in Procs |-> NotChecked]
    /\ exchanges = [p \in Procs |-> <<>>]
    /\ stored = [p \in Procs |-> NoToken]
    /\ resp = [p \in Procs |-> NoResp]
    /\ result = [p \in Procs |-> NoResult]
    /\ rec = NoRec
    /\ got = NoRead
    /\ redeemed = [r \in 0..MaxIssued |-> 0]
    /\ overlapped = FALSE

\* The clock advances. The client reads it when an operation begins and when a refresh
\* response arrives, so it is advanced only where one of the two can come next.
Tick ==
    /\ \A p \in Procs : pc[p] \in {"idle", "refresh"}
    /\ now + TickStep <= MaxTicks * TickStep
    /\ now' = now + TickStep
    /\ UNCHANGED <<token, issued, pc, op, listing, sess, hist, result, domain, race>>

\* the expiry test with the boundary instant left out
ExpiringLate(t, tok) == t > tok.expires_at - RefreshMargin

\* _refresh_token, lines 282-284: the expiry test
Expiring(t, tok) == t >= tok.expires_at - RefreshMargin

\* A caller enters operation o; the operation's first statement, self._refresh_token(),
\* reads the clock and tests the expiry.
Call(p, o, l, chain, e) ==
    /\ pc[p] = "idle"
    /\ op' = [op EXCEPT ![p] = o]
    /\ limit' = [limit EXCEPT ![p] = l]
    /\ pages' = [pages EXCEPT ![p] = chain]
    /\ endless' = [endless EXCEPT ![p] = e]
    /\ entry' = [entry EXCEPT ![p] = token]
    /\ checked' = [checked EXCEPT ![p] = [at |-> now, expiring |-> Expiring(now, token)]]
    /\ IF Expiring(now, token)
       THEN /\ pc' = [pc EXCEPT ![p] = "refresh"]
            /\ sess' = [sess EXCEPT ![p] = token]
            /\ UNCHANGED stored
       ELSE /\ pc' = [pc EXCEPT ![p] = "session"]
            /\ stored' = [stored EXCEPT ![p] = token]
            /\ UNCHANGED sess
    /\ overlapped' = (overlapped \/ \E q \in Procs \ {p} : pc[q] # "idle")
    /\ UNCHANGED <<conn, url, contents, fetched, used, exchanges, resp, result, domain, redeemed>>

CallSingle(p, o) == Call(p, o, 0, <<>>, FALSE)

CallGetTasks(p, l, chain, e) == Call(p, "get_tasks", l, chain, e)

\* the token the library builds from the n-th successful refresh response at time t:
\* a new access token, a new refresh token, expires_at = t + expires_in
NewToken(n, t, expires_in) ==
    [access_token |-> n, refresh_token |-> n, expires_at |-> t + expires_in]

\* the new token dropped and the old one kept
StoreTokenKeepsOld(old_token, new_token) == old_token

\* _refresh_token, line 289: self.token = new_token
StoreToken(old_token, new_token) == new_token

\* the answers of the token endpoint: success, a refused grant, a server error, and no
\* answer at all (status_code 0)
Exchanged(new_token) == [status_code |-> 200, token |-> new_token]
Refused(status_code) == [status_code |-> status_code, token |-> NoToken]
RefusalCodes == {0, 400, 500}

\* _refresh_token, lines 285-289: the exchange succeeds
RefreshOk(p) ==
    /\ pc[p] = "refresh"
    /\ issued < MaxIssued
    /\ \E expires_in \in Lifetimes :
         LET new_token == NewToken(issued + 1, now, expires_in) IN
         /\ token' = StoreToken(token, new_token)
         /\ stored' = [stored EXCEPT ![p] = StoreToken(token, new_token)]
         /\ exchanges' = [exchanges EXCEPT ![p] = Append(@, Exchanged(new_token))]
    /\ issued' = issued + 1
    /\ redeemed' = [redeemed EXCEPT ![sess[p].refresh_token] = @ + 1]
    /\ pc' = [pc EXCEPT ![p] = "session"]
    /\ sess' = [sess EXCEPT ![p] = NoToken]
    /\ UNCHANGED <<now, op, listing, fetched, used, entry, checked, resp, result, domain, overlapped>>

\* a refresh failure wrapped as the client's own error
RefreshFailureWrapped(status_code) == PymstodoError(status_code, "")

\* What reaches the caller when oa_sess.refresh_token raises: _refresh_token and the
\* operations have no try and no check of the token response, so the exception of the
\* OAuth library (a refused grant) or of the transport (no answer) passes through.
RefreshFailure(status_code) ==
    IF status_code = 0 THEN LibraryError("ConnectionError") ELSE LibraryError("OAuth2Error")

\* the exchange fails after the client has dropped the access token it held
RefreshFailDropsToken(p) ==
    /\ pc[p] = "refresh"
    /\ \E status_code \in RefusalCodes :
         /\ result' = [result EXCEPT ![p] = RefreshFailure(status_code)]
         /\ exchanges' = [exchanges EXCEPT ![p] = Append(@, Refused(status_code))]
    /\ token' = [token EXCEPT !.access_token = NoToken.access_token]
    /\ pc' = [pc EXCEPT ![p] = "done"]
    /\ sess' = [sess EXCEPT ![p] = NoToken]
    /\ UNCHANGED <<now, issued, op, listing, fetched, used, entry, checked, stored, resp, domain, race>>

\* _refresh_token, line 288: the exchange fails and the library raises
RefreshFail(p) ==
    /\ pc[p] = "refresh"
    /\ \E status_code \in RefusalCodes :
         /\ result' = [result EXCEPT ![p] = RefreshFailure(status_code)]
         /\ exchanges' = [exchanges EXCEPT ![p] = Append(@, Refused(status_code))]
    /\ pc' = [pc EXCEPT ![p] = "done"]
    /\ sess' = [sess EXCEPT ![p] = NoToken]
    /\ UNCHANGED <<conn, op, listing, fetched, used, entry, checked, stored, resp, domain, race>>

\* the session built with the token the operation found when it began
SessionTokenStale(p) == entry[p]

\* the token an operation's session is built with: token=self.token
SessionToken(p) == token

\* The operation builds its session: OAuth2Session(..., token=self.token). get_tasks
\* then sets up its loop (lines 418-425): the first page's URL and an empty list.
MakeSession(p) ==
    /\ pc[p] = "session"
    /\ sess' = [sess EXCEPT ![p] = SessionToken(p)]
    /\ url' = [url EXCEPT ![p] = IF op[p] = "get_tasks" THEN 1 ELSE NoUrl]
    /\ contents' = [contents EXCEPT ![p] = <<>>]
    /\ pc' = [pc EXCEPT ![p] = "request"]
    /\ UNCHANGED <<conn, op, limit, pages, endless, hist, result, domain, race>>

\* only the 5xx answers taken as failures
FailedServerOnly(r) == r.status_code >= 500 /\ r.status_code < 600

\* `if not resp.ok: raise PymstodoError(resp.status_code, resp.reason)`
Failed(r) == ~RespOk(r)

\* json.loads(resp.content.decode()) raises on a body that is no JSON document
Decoded(r, v) == IF r.body = "json" THEN Returned(v) ELSE LibraryError("JSONDecodeError")

\* the outcome of a single-request operation o on response r
SingleResult(o, r) ==
    IF Failed(r) THEN PymstodoError(r.status_code, r.reason)
    ELSE IF Callee(o) \in DeleteOps THEN Returned("True")
    ELSE Decoded(r, ValueOf(o))

\* get_lists, create_list, get_list, update_list, delete_list, create_task, get_task,
\* update_task, delete_task, complete_task: the one request and what comes of it
Request(p) ==
    /\ pc[p] = "request"
    /\ op[p] \in SingleOps
    /\ \E r \in Responses :
         /\ resp' = [resp EXCEPT ![p] = r]
         /\ result' = [result EXCEPT ![p] = SingleResult(op[p], r)]
    /\ fetched' = [fetched EXCEPT ![p] = Append(@, 1)]
    /\ used' = [used EXCEPT ![p] = @ \cup {sess[p]}]
    /\ pc' = [pc EXCEPT ![p] = "done"]
    /\ UNCHANGED <<conn, op, listing, sess, entry, checked, exchanges, stored, domain, race>>

\* the limit argument ignored
EffLimitDefault(l) == DefaultLimit

\* eff_limit = limit or 1000
EffLimit(l) == IF l = 0 THEN DefaultLimit ELSE l

\* the loop going on for as long as there is a next link
LoopCondNoLimit(n, eff_limit, u) == u # NoUrl

\* the condition of get_tasks' while loop
LoopCond(n, eff_limit, u) == (n < eff_limit \/ eff_limit <= 0) /\ u # NoUrl

\* resp_content.get('@odata.nextLink'): page k of the chain links to page k + 1, the
\* last page to nothing, or to the first page when the server's chain never ends
NextLink(chain, e, k) ==
    IF k < Len(chain) THEN k + 1 ELSE IF e THEN 1 ELSE NoUrl

\* the page put in front of the accumulated items
ExtendFront(acc, value) == value \o acc

\* contents.extend(resp_content['value'])
Extend(acc, value) == acc \o value

\* the listing handing back what it has when a page fails
PageFailurePartial(r) == Returned("Tasks")

\* what a non-success page response does to the listing
PageFailure(r) == PymstodoError(r.status_code, r.reason)

\* get_tasks, lines 426-432: one turn of the loop
GetPage(p) ==
    /\ pc[p] = "request"
    /\ op[p] = "get_tasks"
    /\ LoopCond(Len(contents[p]), EffLimit(limit[p]), url[p])
    /\ Len(fetched[p]) <= MaxPages
    /\ fetched' = [fetched EXCEPT ![p] = Append(@, url[p])]
    /\ used' = [used EXCEPT ![p] = @ \cup {sess[p]}]
    /\ \E r \in Responses :
         /\ resp' = [resp EXCEPT ![p] = r]
         /\ IF Failed(r)
            THEN /\ result' = [result EXCEPT ![p] = PageFailure(r)]
                 /\ pc' = [pc EXCEPT ![p] = "done"]
                 /\ UNCHANGED <<url, contents>>
            ELSE IF r.body # "json"
            THEN /\ result' = [result EXCEPT ![p] = LibraryError("JSONDecodeError")]
                 /\ pc' = [pc EXCEPT ![p] = "done"]
                 /\ UNCHANGED <<url, contents>>
            ELSE /\ url' = [url EXCEPT ![p] = NextLink(pages[p], endless[p], url[p])]
                 /\ contents' = [contents EXCEPT ![p] = Extend(@, pages[p][url[p]])]
                 /\ UNCHANGED <<result, pc>>
    /\ UNCHANGED <<conn, op, limit, pages, endless, sess, entry, checked, exchanges, stored, domain, race>>

\* `if limit: contents = contents[:limit]`
Truncate(acc, l) == IF l # 0 THEN SliceTo(acc, l) ELSE acc

\* get_tasks, lines 433-435: the loop is over
FinishTasks(p) ==
    /\ pc[p] = "request"
    /\ op[p] = "get_tasks"
    /\ ~LoopCond(Len(contents[p]), EffLimit(limit[p]), url[p])
    /\ contents' = [contents EXCEPT ![p] = Truncate(@, limit[p])]
    /\ result' = [result EXCEPT ![p] = Returned("Tasks")]
    /\ pc' = [pc EXCEPT ![p] = "done"]
    /\ UNCHANGED <<conn, op, limit, pages, endless, url, sess, hist, domain, race>>

\* the caller has its value or its exception; the operation's frame is gone
Return(p) ==
    /\ pc[p] = "done"
    /\ pc' = [pc EXCEPT ![p] = "idle"]
    /\ op' = [op EXCEPT ![p] = ""]
    /\ limit' = [limit EXCEPT ![p] = 0]
    /\ pages' = [pages EXCEPT ![p] = <<>>]
    /\ endless' = [endless EXCEPT ![p] = FALSE]
    /\ url' = [url EXCEPT ![p] = NoUrl]
    /\ contents' = [contents EXCEPT ![p] = <<>>]
    /\ fetched' = [fetched EXCEPT ![p] = <<>>]
    /\ sess' = [sess EXCEPT ![p] = NoToken]
    /\ used' = [used EXCEPT ![p] = {}]
    /\ entry' = [entry EXCEPT ![p] = NoToken]
    /\ checked' = [checked EXCEPT ![p] = NotChecked]
    /\ exchanges' = [exchanges EXCEPT ![p] = <<>>]
    /\ stored' = [stored EXCEPT ![p] = NoToken]
    /\ resp' = [resp EXCEPT ![p] = NoResp]
    /\ result' = [result EXCEPT ![p] = NoResult]
    /\ UNCHANGED <<conn, domain, race>>

\* one thread of control: every operation is called from the same thread, and so
\* begins only when the one before has returned or raised
Main == CHOOSE p \in Procs : \A q \in Procs : p <= q

Step(p) ==
    \/ RefreshOk(p)
    \/ RefreshFail(p)
    \/ MakeSession(p)
    \/ Request(p)
    \/ GetPage(p)
    \/ FinishTasks(p)
    \/ Return(p)

Next ==
    \/ Tick
    \/ \E o \in SingleOps : CallSingle(Main, o)
    \/ \E l \in Limits, chain \in PageChains, e \in BOOLEAN : CallGetTasks(Main, l, chain, e)
    \/ Step(Main)

Spec == Init /\ [][Next]_vars

\* ------------------------------------------------- callers not serialized
\* the clock advances, wherever the callers are
Elapse ==
    /\ now + TickStep <= MaxTicks * TickStep
    /\ now' = now + TickStep
    /\ UNCHANGED <<token, issued, pc, op, listing, sess, hist, result, domain, race>>

\* the operation the racing callers run; the refresh is the same in all eleven
RaceOps == {"get_lists"}

\* the two callers whose operations overlap
Racers == { p \in Procs : p <= Main + 1 }

\* Two threads use the one ToDoConnection with nothing serializing them: either of
\* them begins an operation at any time, and their steps interleave.
NextRace ==
    \/ Elapse
    \/ \E p \in Racers, o \in RaceOps : CallSingle(p, o)
    \/ \E p \in Racers : RefreshOk(p)
    \/ \E p \in Racers : RefreshFail(p)
    \/ \E p \in Racers : MakeSession(p)
    \/ \E p \in Racers : Request(p)
    \/ \E p \in Racers : Return(p)

SpecRace == Init /\ [][NextRace]_vars

\* ------------------------------------------------------- Task and TaskList
\* Python values
None == [tag |-> "None"]
Str(chars) == [tag |-> "str", s |-> chars]
Bool(b) == [tag |-> "bool", b |-> b]
Dict(d) == [tag |-> "dict", d |-> d]
Raised(exc) == [tag |-> "raised", exc |-> exc]

\* `if x:` on the values a field holds
Truthy(v) == v.tag # "None" /\ (v.tag = "str" => v.s # <<>>) /\ (v.tag = "bool" => v.b)

\* dataclasses.fields(self), in the order of the class body
TaskListFields == <<"list_id", "displayName", "isOwner", "isShared", "wellknownListName">>

TaskFields ==
    <<"task_id", "body", "categories", "completedDateTime", "createdDateTime", "dueDateTime",
      "hasAttachments", "title", "importance", "isReminderOn", "lastModifiedDateTime",
      "reminderDateTime", "startDateTime", "status">>

FieldsOf(kind) == IF kind = "Task" THEN TaskFields ELSE TaskListFields

Range(seq) == { seq[i] : i \in 1..Len(seq) }

\* 'id' if f.name == 'list_id' else f.name  /  'id' if f.name == 'task_id' else f.name
WireKey(kind, f) ==
    IF (kind = "TaskList" /\ f = "list_id") \/ (kind = "Task" /\ f = "task_id") THEN "id" ELSE f

\* the keys a payload of the service may hold: the fields' keys and one the client
\* has no field for
WireKeys(kind) == { WireKey(kind, f) : f \in Range(FieldsOf(kind)) } \cup {"@odata.etag"}

\* a value of each key as the service sends it; wk is the wellknownListName sent
Sample(k, wk) ==
    CASE k \in {"id", "@odata.etag", "importance"} -> Str(<<"x">>)
      [] k \in {"displayName", "title"} -> Str(<<" ", "a", "|", "b", " ">>)
      [] k \in {"isOwner", "isShared", "hasAttachments", "isReminderOn"} -> Bool(TRUE)
      [] k = "wellknownListName" -> Str(<<wk>>)
      [] k = "status" -> Str(<<"completed">>)
      [] k = "categories" -> Dict(<<"c">>)
      [] k = "body" -> Dict([content |-> Str(<<"t">>), contentType |-> "text"])
      [] k \in {"createdDateTime", "lastModifiedDateTime"} -> Str(<<"2020-01-01T00:00:00Z">>)
      [] OTHER -> Dict([dateTime |-> "2020-01-01T00:00:00.0000000", timeZone |-> "UTC"])

\* kwargs.get(key)
KwGet(kwargs, key) == IF key \in DOMAIN kwargs THEN kwargs[key] ELSE None

\* TaskList.__init__ and Task.__init__: setattr(self, f.name, kwargs.get(key of f))
New(kind, kwargs) ==
    [kind |-> kind,
     attrs |-> [f \in Range(FieldsOf(kind)) |-> KwGet(kwargs, WireKey(kind, f))]]

\* get_zoneinfo_name_by_windows_zone: windows_zones.get(windows_zone, windows_zone)
windows_zones == [z \in {"Pacific Standard Time"} |-> "America/Los_Angeles"]

get_zoneinfo_name_by_windows_zone(windows_zone) ==
    IF windows_zone \in DOMAIN windows_zones THEN windows_zones[windows_zone] ELSE windows_zone

\* x.replace('|', <em dash>) on a sequence of characters
Replace(chars) == [i \in 1..Len(chars) |-> IF chars[i] = "|" THEN "--" ELSE chars[i]]

\* x.strip()
RECURSIVE LStrip(_)
LStrip(chars) ==
    IF chars # <<>> /\ Head(chars) = " " THEN LStrip(Tail(chars)) ELSE chars

RECURSIVE RStrip(_)
RStrip(chars) ==
    IF chars # <<>> /\ chars[Len(chars)] = " "
    THEN RStrip(SubSeq(chars, 1, Len(chars) - 1)) ELSE chars

Strip(chars) == RStrip(LStrip(chars))

\* self.<field>.replace('|', <em dash>).strip(); None has no replace
Display(v) ==
    IF v.tag = "str" THEN Str(Strip(Replace(v.s))) ELSE Raised("AttributeError")

\* TaskStatus(x) and WellknownListName(x): the member with that value, or ValueError
EnumOf(cls, values, v) ==
    IF v.tag = "str" /\ Len(v.s) = 1 /\ v.s[1] \in values
    THEN [tag |-> "enum", cls |-> cls, value |-> v.s[1]]
    ELSE Raised("ValueError")

TaskStatusValues == {"notStarted", "inProgress", "completed", "waitingOnOthers", "deferred"}
WellknownListNameValues == {"defaultList", "flaggedEmails", "unknownFutureValue"}

\* completed_date, due_date, reminder_date, start_date
ZonedDate(v) ==
    IF Truthy(v)
    THEN [tag |-> "datetime", iso |-> v.d.dateTime,
          zone |-> get_zoneinfo_name_by_windows_zone(v.d.timeZone)]
    ELSE None

\* created_date, last_mod_date
UtcDate(v) ==
    IF Truthy(v) THEN [tag |-> "datetime", iso |-> v.s[1], zone |-> "UTC"] ELSE None

\* Task.body_text
body_text(self) == IF Truthy(self.attrs["body"]) THEN self.attrs["body"].d.content ELSE None

\* Task.task_status
task_status(self) == EnumOf("TaskStatus", TaskStatusValues, self.attrs["status"])

\* TaskList.wellknown_list_name
wellknown_list_name(self) ==
    IF self.attrs["wellknownListName"] = Str(<<"none">>) THEN None
    ELSE EnumOf("WellknownListName", WellknownListNameValues, self.attrs["wellknownListName"])

\* TaskList.__str__
TaskListStr(self) == Display(self.attrs["displayName"])

\* Task.__str__: the title, and ' <bullet> Due <date>' after it when there is a due date
TaskStr(self) ==
    LET title == Display(self.attrs["title"]) IN
    IF title.tag = "raised" THEN title
    ELSE IF Truthy(ZonedDate(self.attrs["dueDateTime"]))
    THEN Str(title.s \o <<" * Due ", "%x">>)
    ELSE title

\* the accessors of each class, and the field each one reads
Accessors(kind) ==
    IF kind = "Task"
    THEN {"__str__", "body_text", "completed_date", "created_date", "due_date",
          "last_mod_date", "reminder_date", "start_date", "task_status"}
    ELSE {"__str__", "link", "wellknown_list_name"}

FieldRead(kind, a) ==
    CASE a = "__str__" -> IF kind = "Task" THEN "title" ELSE "displayName"
      [] a = "link" -> "list_id"
      [] a = "body_text" -> "body"
      [] a = "completed_date" -> "completedDateTime"
      [] a = "created_date" -> "createdDateTime"
      [] a = "due_date" -> "dueDateTime"
      [] a = "last_mod_date" -> "lastModifiedDateTime"
      [] a = "reminder_date" -> "reminderDateTime"
      [] a = "start_date" -> "startDateTime"
      [] a = "task_status" -> "status"
      [] OTHER -> "wellknownListName"

\* reading accessor a of a record
Read(self, a) ==
    CASE a = "__str__" -> IF self.kind = "Task" THEN TaskStr(self) ELSE TaskListStr(self)
      [] a = "link" -> Str(<<"href=https://to-do.live.com/tasks/{self.list_id}">>)
      [] a = "body_text" -> body_text(self)
      [] a \in {"created_date", "last_mod_date"} -> UtcDate(self.attrs[FieldRead(self.kind, a)])
      [] a = "task_status" -> task_status(self)
      [] a = "wellknown_list_name" -> wellknown_list_name(self)
      [] OTHER -> ZonedDate(self.attrs[FieldRead(self.kind, a)])

\* the payloads: any keys of the service, at most MaxFields of them
Payloads(kind, wk) ==
    { [k \in P |-> Sample(k, wk)] :
        P \in { Q \in SUBSET WireKeys(kind) : Cardinality(Q) <= MaxFields } }

\* TaskList(**contents)
NewTaskList ==
    /\ \E wk \in {"none", "defaultList"} : \E kwargs \in Payloads("TaskList", wk) :
         rec' = New("TaskList", kwargs)
    /\ got' = NoRead
    /\ UNCHANGED <<conn, pc, op, listing, sess, hist, result, race>>

\* Task(**contents)
NewTask ==
    /\ \E kwargs \in Payloads("Task", "none") : rec' = New("Task", kwargs)
    /\ got' = NoRead
    /\ UNCHANGED <<conn, pc, op, listing, sess, hist, result, race>>

\* the caller reads an accessor of the record it holds
Access ==
    /\ rec # NoRec
    /\ \E a \in Accessors(rec.kind) : got' = [name |-> a, out |-> Read(rec, a)]
    /\ UNCHANGED <<conn, pc, op, listing, sess, hist, result, rec, race>>

NextDomain == NewTaskList \/ NewTask \/ Access

SpecDomain == Init /\ [][NextDomain]_vars

\* ---------------------------------------------------------------- listing
Listed(p) == pc[p] = "done" /\ op[p] = "get_tasks" /\ result[p].kind = "returned"

Total(p) == Len(AllItems(pages[p]))

\* the number of items in the pages before page k of a chain that ends
Before(p, k) == Len(Concat(pages[p], k - 1))

\* C1: get_tasks with a positive limit, on a chain of pages that ends and holds no
\* more items than the limit, returns the items of all the pages in page order.
C1_AllPagesInOrder ==
    \A p \in Procs :
        (Listed(p) /\ limit[p] > 0 /\ ~endless[p] /\ Total(p) <= limit[p])
            => contents[p] = AllItems(pages[p])

C1_Witness ==
    \E p \in Procs :
        /\ Listed(p) /\ limit[p] > 0 /\ ~endless[p]
        /\ Len(pages[p]) = 2 /\ Len(pages[p][1]) > 0 /\ Len(pages[p][2]) > 0
        /\ Total(p) <= limit[p]
        /\ Len(fetched[p]) = 2
        /\ contents[p] = AllItems(pages[p])

\* C2: get_tasks with a positive limit smaller than the number of items on a chain
\* that ends returns the first limit items of the chain, and every page it requested
\* was requested while fewer than limit items had been accumulated.
C2_TruncatedNoExtraPage ==
    \A p \in Procs :
        (op[p] = "get_tasks" /\ limit[p] > 0 /\ ~endless[p] /\ limit[p] < Total(p))
            => /\ \A i \in 1..Len(fetched[p]) : Before(p, fetched[p][i]) < limit[p]
               /\ Listed(p) => contents[p] = SubSeq(AllItems(pages[p]), 1, limit[p])

C2_Witness ==
    \E p \in Procs :
        /\ Listed(p) /\ limit[p] = 1 /\ ~endless[p]
        /\ Len(pages[p]) = 2 /\ Len(pages[p][1]) = 2 /\ Len(pages[p][2]) = 1
        /\ fetched[p] = <<1>>
        /\ contents[p] = <<1>>

\* C3: get_tasks with a limit of zero or less, on a chain of pages that ends, requests
\* every page and returns every item of every page.
C3_NonPositiveUnbounded ==
    \A p \in Procs :
        (Listed(p) /\ limit[p] <= 0 /\ ~endless[p])
            => /\ contents[p] = AllItems(pages[p])
               /\ fetched[p] = [k \in 1..Len(pages[p]) |-> k]

\* ---------------------------------------------------------- token refresh
\* the freshness check of p's operation is over: _refresh_token returned or raised
CheckOver(p) == pc[p] \in {"session", "request", "done"}

RefreshFailed(p) == exchanges[p] # <<>> /\ exchanges[p][Len(exchanges[p])].status_code # 200

\* C4: a freshness check made at a time before expires_at - 300 makes no refresh
\* exchange and leaves the stored token as it was; one made at or after that time
\* makes exactly one exchange, and when the exchange succeeds the stored token is
\* the token of the server's response, every field of it.
C4_RefreshExactlyWhenExpiring ==
    \A p \in Procs :
        CheckOver(p) =>
            IF checked[p].at < entry[p].expires_at - 300
            THEN exchanges[p] = <<>> /\ token = entry[p]
            ELSE /\ Len(exchanges[p]) = 1
                 /\ exchanges[p][1].status_code = 200 => token = exchanges[p][1].token

C4_Witness ==
    \E p \in Procs :
        /\ CheckOver(p)
        /\ checked[p].at = entry[p].expires_at - 300
        /\ Len(exchanges[p]) = 1
        /\ token = exchanges[p][1].token
        /\ token # entry[p]

\* C5: when the refresh exchange fails, the operation raises, it has sent no API
\* request, and the stored token is the one it was when the operation began.
C5_FailedRefreshLeavesToken ==
    \A p \in Procs :
        RefreshFailed(p) =>
            /\ pc[p] = "done"
            /\ result[p].kind = "raised"
            /\ fetched[p] = <<>>
            /\ token = entry[p]

C5_Witness ==
    \E p \in Procs :
        /\ RefreshFailed(p)
        /\ result[p].kind = "raised"
        /\ token = entry[p]
        /\ issued > 0

\* C6: an operation that has sent an API request has made its freshness check, and
\* every API request it sent carried the token as stored when that check returned.
C6_CheckBeforeRequests ==
    \A p \in Procs :
        fetched[p] # <<>> =>
            /\ op[p] \in Ops
            /\ checked[p] # NotChecked
            /\ stored[p] # NoToken
            /\ used[p] = {stored[p]}

C6_Witness ==
    \E p \in Procs :
        /\ op[p] = "complete_task"
        /\ fetched[p] # <<>>
        /\ Len(exchanges[p]) = 1
        /\ stored[p] # entry[p]
        /\ used[p] = {stored[p]}

\* ------------------------------------------------------------------ errors
Answered(p) == pc[p] = "done" /\ resp[p] # NoResp

Is2xx(r) == r.status_code >= 200 /\ r.status_code <= 299

IsError(r) == r.status_code >= 400 /\ r.status_code <= 599

Carries(res, r) ==
    /\ res.kind = "raised"
    /\ res.exc = "PymstodoError"
    /\ res.status_code = r.status_code
    /\ res.reason = r.reason

\* C7, as claimed: an operation whose endpoint answers with a status outside 200-299
\* raises PymstodoError with that status code and reason, and a delete operation
\* returns True only on a 2xx answer.
C7_Non2xxRaises ==
    \A p \in Procs :
        Answered(p) =>
            /\ ~Is2xx(resp[p]) => Carries(result[p], resp[p])
            /\ (Callee(op[p]) \in DeleteOps /\ result[p].kind = "returned") => Is2xx(resp[p])

\* C7, amended: an operation whose endpoint answers with a status from 400 to 599
\* raises PymstodoError with that status code and reason and returns no value, and a
\* delete operation returns True only on an answer whose status is outside 400-599.
C7_ErrorStatusRaises ==
    \A p \in Procs :
        Answered(p) =>
            /\ IsError(resp[p]) => Carries(result[p], resp[p]) /\ result[p].value = ""
            /\ (Callee(op[p]) \in DeleteOps /\ result[p].kind = "returned")
                   => result[p].value = "True" /\ ~IsError(resp[p])

C7_Witness ==
    \E p \in Procs :
        /\ Answered(p)
        /\ op[p] = "delete_list"
        /\ resp[p].status_code = 404
        /\ Carries(result[p], resp[p])

\* C8, as claimed: whenever a request of an operation, the token refresh request
\* included, is answered with a non-success status, the operation raises
\* PymstodoError with that status code.
C8_OneErrorKind ==
    \A p \in Procs :
        pc[p] = "done" =>
            /\ (resp[p] # NoResp /\ IsError(resp[p])) => Carries(result[p], resp[p])
            /\ (RefreshFailed(p) /\ exchanges[p][1].status_code # 0)
                   => /\ result[p].kind = "raised"
                      /\ result[p].exc = "PymstodoError"
                      /\ result[p].status_code = exchanges[p][1].status_code

\* C8, amended: whenever an API request of an operation is answered with a
\* non-success status the operation raises PymstodoError with that status code and
\* reason; a failed token refresh request raises the exception of the OAuth library
\* or of the transport, which is not a PymstodoError.
C8_ApiErrorsOnly ==
    \A p \in Procs :
        pc[p] = "done" =>
            /\ (resp[p] # NoResp /\ IsError(resp[p])) => Carries(result[p], resp[p])
            /\ RefreshFailed(p)
                   => result[p].kind = "raised" /\ result[p].exc \in {"OAuth2Error", "ConnectionError"}
            /\ result[p].exc = "PymstodoError" => (resp[p] # NoResp /\ IsError(resp[p]))

C8_Witness ==
    \E p \in Procs :
        /\ pc[p] = "done"
        /\ op[p] = "get_lists"
        /\ RefreshFailed(p)
        /\ exchanges[p][1].status_code = 400
        /\ result[p].exc = "OAuth2Error"

\* C9: in get_tasks a non-success answer on any page ends the listing: the operation
\* raises PymstodoError and returns nothing, the failed page was requested once, and
\* no request follows it.
C9_PageFailureAbandons ==
    /\ [](\A p \in Procs :
            (op[p] = "get_tasks" /\ resp[p] # NoResp /\ IsError(resp[p])) =>
                /\ pc[p] = "done"
                /\ Carries(result[p], resp[p])
                /\ result[p].value = ""
                /\ ~endless[p] =>
                       Cardinality({i \in 1..Len(fetched[p]) :
                                       fetched[p][i] = fetched[p][Len(fetched[p])]}) = 1)
    /\ [][\A p \in Procs :
            (op[p] = "get_tasks" /\ resp[p] # NoResp /\ IsError(resp[p]))
                => (fetched'[p] = fetched[p] \/ fetched'[p] = <<>>)]_vars

C9_Witness ==
    \E p \in Procs :
        /\ op[p] = "get_tasks" /\ pc[p] = "done"
        /\ IsError(resp[p])
        /\ fetched[p] = <<1, 2>>
        /\ contents[p] # <<>>
        /\ Carries(result[p], resp[p])

\* ---------------------------------------------------------- domain model
\* C10: whatever fields a payload leaves out, the Task or TaskList is built, and an
\* accessor that reads a field the payload left out gives None and does not raise.
C10_MissingFieldsAbsent ==
    (rec # NoRec /\ got # NoRead /\ rec.attrs[FieldRead(rec.kind, got.name)] = None
        /\ got.name # "link")
        => got.out = None

\* ------------------------------------------------------------ refresh race
\* C11: an exchange is made only by an operation whose expiry check found the token
\* due, and the stored token is always the one issued last, whoever stored it; as
\* long as no operation has begun while another was under way, no refresh token is
\* exchanged successfully more than once.
C11_RefreshRace ==
    /\ \A p \in Procs :
           (pc[p] = "refresh" \/ exchanges[p] # <<>>)
               => checked[p].at >= entry[p].expires_at - 300
    /\ issued > 0 => token.access_token = issued
    /\ ~overlapped => \A r \in DOMAIN redeemed : redeemed[r] <= 1

\* two overlapping operations have both found the token due, both exchanged the same
\* old refresh token, and the token stored last has replaced the other's
C11_Witness ==
    \E p \in Procs, q \in Procs :
        /\ p # q
        /\ overlapped
        /\ Len(exchanges[p]) = 1 /\ exchanges[p][1].status_code = 200
        /\ Len(exchanges[q]) = 1 /\ exchanges[q][1].status_code = 200
        /\ entry[p] = entry[q]
        /\ redeemed[entry[p].refresh_token] = 2
        /\ stored[p] # stored[q]
        /\ token = stored[q]
        /\ token # stored[p]

\* ------------------------------------------------------------ termination
NoEmptyPage(p) == \A k \in 1..Len(pages[p]) : pages[p][k] # <<>>

\* C12: with a positive limit and no empty page, get_tasks sends at most limit page
\* requests, also on a chain whose every page has a next-link: after limit requests
\* it has its limit items and the loop is over; and it ends only with no next-link,
\* with limit items, or with an error.
C12_AtMostLimitRequests ==
    \A p \in Procs :
        (op[p] = "get_tasks" /\ limit[p] > 0) =>
            /\ NoEmptyPage(p) =>
                   /\ Len(fetched[p]) <= limit[p]
                   /\ (pc[p] = "request" /\ Len(fetched[p]) = limit[p])
                          => Len(contents[p]) >= limit[p]
            /\ pc[p] = "done" =>
                   \/ result[p].kind = "raised"
                   \/ url[p] = NoUrl
                   \/ Len(contents[p]) = limit[p]

C12_Witness ==
    \E p \in Procs :
        /\ Listed(p) /\ endless[p] /\ NoEmptyPage(p)
        /\ limit[p] = 2
        /\ Len(fetched[p]) = 2
        /\ url[p] # NoUrl
        /\ Len(contents[p]) = 2

====
